---- MODULE Spec2Model ----
(***************************************************************************)
(* A model of bilstm_ner.py: the CRF layer of BiLSTM_CRF (gold-path        *)
(* scorer and Viterbi decoder), the balanced partition of the corpus and   *)
(* the load / parallel-train / save / infer orchestration of main().       *)
(*                                                                         *)
(* Scores are integers.  The decoder and the scorer add the same terms in  *)
(* the same order, and max is monotone under rounding, so the properties   *)
(* checked here do not depend on floating-point rounding.                  *)
(***************************************************************************)
EXTENDS Integers, Sequences, FiniteSets, TLC

\* ------------------------------------------------------------ bounds
MaxN == 12          \* largest corpus size tried by the partition
MaxP == 5           \* largest worker count tried by the partition
MaxLen == 2         \* longest emission matrix (sentence) decoded
MaxCorpus == 2      \* largest corpus trained on
MaxEpoch == 1       \* passes over a shard (the program makes 15)

\* ------------------------------------------------- program constants
B_IX == 0
I_IX == 1
O_IX == 2
START_IX == 3
STOP_IX == 4
tagset_size == 5
NEG == -10000
num_processes == 4
LrInv == 100        \* lr = 0.01
WdInv == 10000      \* weight_decay = 1e-4

TagIx == 0 .. (tagset_size - 1)

VARIABLES
    \* partition of the corpus (main, lines 280-283)
    N, P, shard_i, fragmented_training_data,
    \* _viterbi_decode (lines 129-171) and its inputs
    transitions, feats, tie, vpc, forward_var, backpointers,
    best_tag_id, path_score, best_path,
    \* main (lines 232-347), its workers (train, lines 206-228), the file
    \* model.pt and the parameters the workers share
    mpc, fileInit, modelFile, corpus, rank, joined, shared,
    wpc, epoch, idx, grad, seen, stepped

mainVars == <<mpc, fileInit, modelFile, corpus, rank, joined, shared,
              wpc, epoch, idx, grad, seen, stepped>>
partVars == <<N, P, shard_i, fragmented_training_data>>
vitVars == <<transitions, feats, tie, vpc, forward_var, backpointers,
             best_tag_id, path_score, best_path>>
vars == <<partVars, vitVars, mainVars>>

Min(a, b) == IF a <= b THEN a ELSE b

\* ================================================= balanced partition
\* training_data: a corpus of n examples, each named by its position
TrainingData(n) == [x \in 1 .. n |-> x]

\* Python's s[a:b] for 0 <= a, 0 <= b: both ends are clamped to len(s)
Slice(s, a, b) == SubSeq(s, Min(a, Len(s)) + 1, Min(b, Len(s)))

ShardMutLo(data, p, i) ==
    LET k == Len(data) \div p
        m == Len(data) % p
    IN  Slice(data, i * k + Min(i + 1, m), (i + 1) * k + Min(i + 1, m))

\* training_data[i*k+min(i, m):(i+1)*k+min(i+1, m)], (k, m) = divmod(len, p)
Shard(data, p, i) ==
    LET k == Len(data) \div p
        m == Len(data) % p
    IN  Slice(data, i * k + Min(i, m), (i + 1) * k + Min(i + 1, m))

\* ==================================================== CRF layer
\* torch.max(vec, 1): the index of a maximal entry; among equal maxima the
\* first one, or (a build with the other tie-break) the last one
argmaxMutSkipLast(vec, tb) ==
    LET dom == {i \in DOMAIN vec : i + 1 \in DOMAIN vec}
        best == {i \in dom : \A j \in dom : vec[j] <= vec[i]}
    IN  IF tb = "first"
        THEN CHOOSE i \in best : \A j \in best : i <= j
        ELSE CHOOSE i \in best : \A j \in best : i >= j

argmax(vec, tb) ==
    LET best == {i \in DOMAIN vec : \A j \in DOMAIN vec : vec[j] <= vec[i]}
    IN  IF tb = "first"
        THEN CHOOSE i \in best : \A j \in best : i <= j
        ELSE CHOOSE i \in best : \A j \in best : i >= j

\* BiLSTM_CRF.__init__: the random matrix with the row of START (nothing
\* moves to START) and the column of STOP (nothing leaves STOP) set to -10000
InitTransitions(randn) ==
    [i \in TagIx |-> [j \in TagIx |->
        IF i = START_IX \/ j = STOP_IX THEN NEG ELSE randn[i][j]]]

\* tags = torch.cat([START], tags): index 0 of the result is 1 here
CatStart(tags) == <<START_IX>> \o tags

RECURSIVE ScoreLoop(_, _, _, _, _)
\* the loop of _score_sentence from feats[i] on (i counts from 1); tg is
\* CatStart(tags); reading tg beyond its end is the IndexError of tags[i + 1]
ScoreLoop(M, fs, tg, i, score) ==
    IF i > Len(fs) THEN [err |-> FALSE, score |-> score]
    ELSE IF i + 1 > Len(tg) THEN [err |-> TRUE, score |-> 0]
    ELSE ScoreLoop(M, fs, tg, i + 1,
                   score + M[tg[i + 1]][tg[i]] + fs[i][tg[i + 1]])

score_sentenceMutNoStop(M, fs, tags) ==
    ScoreLoop(M, fs, CatStart(tags), 1, 0)

\* _score_sentence(feats, tags): the score, or err when it raises
score_sentence(M, fs, tags) ==
    LET tg == CatStart(tags)
        r == ScoreLoop(M, fs, tg, 1, 0)
    IN  IF r.err THEN r
        ELSE [err |-> FALSE, score |-> r.score + M[STOP_IX][tg[Len(tg)]]]

init_vvarsMutZero == [j \in TagIx |-> 0]

\* init_vvars: -10000 everywhere, 0 at START
init_vvars == [j \in TagIx |-> IF j = START_IX THEN 0 ELSE NEG]

\* next_tag_var = forward_var + self.transitions[next_tag]
next_tag_var(M, fv, next_tag) == [j \in TagIx |-> fv[j] + M[next_tag][j]]

\* the backpointers of one step: the best previous tag for each next_tag
bptrs_t(M, fv, tb) ==
    [next_tag \in TagIx |-> argmax(next_tag_var(M, fv, next_tag), tb)]

\* the viterbi variables of one step, before the emission is added
viterbivars_t(M, fv, tb) ==
    [next_tag \in TagIx |->
        next_tag_var(M, fv, next_tag)[bptrs_t(M, fv, tb)[next_tag]]]

terminal_varMutNoStop(M, fv) == fv

\* terminal_var = forward_var + self.transitions[STOP]
terminal_var(M, fv) == next_tag_var(M, fv, STOP_IX)

Reverse(s) == [i \in 1 .. Len(s) |-> s[Len(s) + 1 - i]]

PartIdle ==
    /\ N = 0 /\ P = 0 /\ shard_i = 0 /\ fragmented_training_data = << >>

VitIdle ==
    /\ transitions = << >> /\ feats = << >> /\ tie = "none" /\ vpc = "idle"
    /\ forward_var = << >> /\ backpointers = << >> /\ best_tag_id = 0
    /\ path_score = 0 /\ best_path = << >>

MainIdle ==
    /\ mpc = "idle" /\ fileInit = "none" /\ modelFile = << >>
    /\ corpus = << >> /\ rank = 0 /\ joined = 0 /\ shared = << >>
    /\ wpc = << >> /\ epoch = << >> /\ idx = << >> /\ grad = << >>
    /\ seen = << >> /\ stepped = {}

InitPartition ==
    /\ N \in 0 .. MaxN
    /\ P \in 1 .. MaxP
    /\ shard_i = 0
    /\ fragmented_training_data = << >>
    /\ VitIdle
    /\ MainIdle

\* one step of the generator in line 283: the shard of worker shard_i
ShardStep ==
    /\ P > 0
    /\ shard_i < P
    /\ fragmented_training_data' =
           Append(fragmented_training_data, Shard(TrainingData(N), P, shard_i))
    /\ shard_i' = shard_i + 1
    /\ UNCHANGED <<N, P, vitVars, mainVars>>

\* ------------------------------------------------ inputs of the decoder
\* stand-ins for torch.randn: the zero matrix and a matrix of -1, 0, 1
Seeds == {0, 1}
PertVals == {-2, 2, 20000}
Randn(seed) ==
    [i \in TagIx |-> [j \in TagIx |->
        IF seed = 0 THEN 0 ELSE ((i + 2 * j + i * j) % 3) - 1]]

\* the matrices decoded: a random matrix, possibly with one entry moved (as
\* training moves entries), either as __init__ leaves it or with the rows
\* and columns of the sentinels free as well
TransitionFamily ==
    LET raw == {Randn(s) : s \in Seeds} \cup
               {[Randn(s) EXCEPT ![a][b] = v] :
                    s \in Seeds, a \in TagIx, b \in TagIx, v \in PertVals}
    IN  raw \cup {InitTransitions(r) : r \in raw}

\* one row of the emission matrix: all zero, or 1 for one tag
FeatRows ==
    {[k \in TagIx |-> 0]} \cup {[k \in TagIx |-> IF k = h THEN 1 ELSE 0] : h \in TagIx}

FeatsFamily == UNION {[1 .. len -> FeatRows] : len \in 0 .. MaxLen}

InitViterbi ==
    /\ transitions \in TransitionFamily
    /\ feats \in FeatsFamily
    /\ tie \in {"first", "last"}
    /\ vpc = "loop"
    /\ forward_var = init_vvars
    /\ backpointers = << >>
    /\ best_tag_id = 0
    /\ path_score = 0
    /\ best_path = << >>
    /\ PartIdle
    /\ MainIdle

\* one pass of "for feat in feats" (lines 138-155)
ViterbiStep ==
    /\ vpc = "loop"
    /\ Len(backpointers) < Len(feats)
    /\ LET feat == feats[Len(backpointers) + 1]
           vv == viterbivars_t(transitions, forward_var, tie)
       IN  /\ forward_var' = [k \in TagIx |-> vv[k] + feat[k]]
           /\ backpointers' =
                  Append(backpointers, bptrs_t(transitions, forward_var, tie))
    /\ UNCHANGED <<transitions, feats, tie, vpc, best_tag_id, path_score,
                   best_path, partVars, mainVars>>

\* the transition to STOP_TAG and the start of the path (lines 157-163)
ViterbiTerminal ==
    /\ vpc = "loop"
    /\ Len(backpointers) = Len(feats)
    /\ LET tv == terminal_var(transitions, forward_var)
           b == argmax(tv, tie)
       IN  /\ best_tag_id' = b
           /\ path_score' = tv[b]
           /\ best_path' = <<b>>
    /\ vpc' = "trace"
    /\ UNCHANGED <<transitions, feats, tie, forward_var, backpointers, partVars, mainVars>>

\* one pass of "for bptrs_t in reversed(backpointers)" (lines 164-166);
\* best_path holds one entry per pass already made, plus the first
ViterbiTrace ==
    /\ vpc = "trace"
    /\ Len(best_path) <= Len(backpointers)
    /\ LET b == backpointers[Len(backpointers) + 1 - Len(best_path)][best_tag_id]
       IN  /\ best_tag_id' = b
           /\ best_path' = Append(best_path, b)
    /\ UNCHANGED <<transitions, feats, tie, vpc, forward_var, backpointers,
                   path_score, partVars, mainVars>>

\* start = best_path.pop(); the assertion holds; reverse and return
ViterbiReturn ==
    /\ vpc = "trace"
    /\ Len(best_path) = Len(backpointers) + 1
    /\ best_path[Len(best_path)] = START_IX
    /\ best_path' = Reverse(SubSeq(best_path, 1, Len(best_path) - 1))
    /\ vpc' = "done"
    /\ UNCHANGED <<transitions, feats, tie, forward_var, backpointers,
                   best_tag_id, path_score, partVars, mainVars>>

\* start = best_path.pop(); the assertion fails: AssertionError
ViterbiAssertFail ==
    /\ vpc = "trace"
    /\ Len(best_path) = Len(backpointers) + 1
    /\ best_path[Len(best_path)] # START_IX
    /\ best_path' = SubSeq(best_path, 1, Len(best_path) - 1)
    /\ vpc' = "assert_fail"
    /\ UNCHANGED <<transitions, feats, tie, forward_var, backpointers,
                   best_tag_id, path_score, partVars, mainVars>>

NextViterbi ==
    \/ ViterbiStep
    \/ ViterbiTerminal
    \/ ViterbiTrace
    \/ ViterbiReturn
    \/ ViterbiAssertFail

SpecViterbi == InitViterbi /\ [][NextViterbi]_vars

\* ====================================================== main and train
START_TAG == "<START>"
STOP_TAG == "<STOP>"

\* tag_to_ix of main
tag_to_ix ==
    [t \in {"B", "I", "O", START_TAG, STOP_TAG} |->
        CASE t = "B" -> B_IX
          [] t = "I" -> I_IX
          [] t = "O" -> O_IX
          [] t = START_TAG -> START_IX
          [] t = STOP_TAG -> STOP_IX]

Ranks == 0 .. (num_processes - 1)

\* corpus entries: a sentence of len characters and its tags.  A sound
\* entry, one with a tag too few, one with a tag too many, and one with a
\* tag that tag_to_ix does not know
EntryOk == [len |-> 2, tags |-> <<"B", "I">>]
EntryShort == [len |-> 2, tags |-> <<"O">>]
EntryLong == [len |-> 2, tags |-> <<"B", "I", "O">>]
EntryBadTag == [len |-> 2, tags |-> <<"O", "S">>]

\* the corpora trained on: sound entries with at most one malformed entry,
\* and a sound corpus that gives the first worker two entries
CorpusFamily ==
    {[x \in 1 .. (num_processes + 1) |-> EntryOk]} \cup
    UNION {
        {[x \in 1 .. n |-> EntryOk]} \cup
        {[[x \in 1 .. n |-> EntryOk] EXCEPT ![at] = e] :
            at \in 1 .. n, e \in {EntryShort, EntryLong, EntryBadTag}}
        : n \in 0 .. MaxCorpus}

\* fragmented_training_data[r]: the positions in the corpus of r's shard
ShardOf(r) == Shard(TrainingData(Len(corpus)), num_processes, r)

\* division rounding toward zero
TruncDiv(a, b) == IF a >= 0 THEN a \div b ELSE -((-a) \div b)

\* the shared transition matrix holds each score in units of lr (1/100):
\* the matrix __init__ builds, with the sentinel entries at -10000
NewModel ==
    [i \in TagIx |-> [j \in TagIx |->
        LrInv * InitTransitions(Randn(1))[i][j]]]

\* the emissions of a sentence: the emission model is not modelled, its
\* scores are taken as 0
ZeroFeats(len) == [t \in 1 .. len |-> [k \in TagIx |-> 0]]

\* the transitions a tag sequence with START in front crosses in
\* _score_sentence, as pairs <<to, from>>: tg[i + 1] from tg[i] for each
\* position of the sentence, then STOP from the last entry of tg
Crossed(tg, len) ==
    [i \in 1 .. (len + 1) |->
        IF i <= len THEN <<tg[i + 1], tg[i]>> ELSE <<STOP_IX, tg[Len(tg)]>>]

Count(seq, x) == Cardinality({i \in 1 .. Len(seq) : seq[i] = x})

\* loss.backward(): the gradient of forward_score - gold_score in the
\* transitions.  The gold score gives -1 for each transition the gold tags
\* cross.  The forward score gives the expected number of crossings under
\* the model, taken here as the crossings of one predicted path pred
Backward(targets, len, pred) ==
    [i \in TagIx |-> [j \in TagIx |->
        Count(Crossed(CatStart(pred), len), <<i, j>>)
            - Count(Crossed(CatStart(targets), len), <<i, j>>)]]

\* the path the model predicts for a sentence: real tags only, as the
\* sentinel entries leave no mass on the others
PredPath(len) == [t \in 1 .. len |-> O_IX]

\* optimizer.step() on one entry: p - lr * (g + weight_decay * p)
SgdStep(p, g) == p - TruncDiv(LrInv * g + TruncDiv(p, WdInv), LrInv)

InitMain ==
    /\ mpc = "load"
    /\ fileInit \in {"absent", "corrupt", "pretrained"}
    /\ modelFile = [state |-> fileInit, params |-> << >>]
    /\ corpus \in CorpusFamily
    /\ rank = 0
    /\ joined = 0
    /\ shared = << >>
    /\ wpc = [r \in Ranks |-> "unstarted"]
    /\ epoch = [r \in Ranks |-> 0]
    /\ idx = [r \in Ranks |-> 1]
    /\ grad = [r \in Ranks |-> << >>]
    /\ seen = [r \in Ranks |-> << >>]
    /\ stepped = {}
    /\ PartIdle
    /\ VitIdle

\* model_load() returns (lines 271-274)
LoadFound ==
    /\ mpc = "load"
    /\ modelFile.state = "pretrained"
    /\ mpc' = "infer"
    /\ UNCHANGED <<fileInit, modelFile, corpus, rank, joined, shared,
                   wpc, epoch, idx, grad, seen, stepped, partVars, vitVars>>

\* model_load() raises, whatever the reason: the bare except takes over,
\* builds the model and shares it (lines 276-288)
LoadExcept ==
    /\ mpc = "load"
    /\ modelFile.state \in {"absent", "corrupt"}
    /\ shared' = NewModel
    /\ mpc' = "spawn"
    /\ UNCHANGED <<fileInit, modelFile, corpus, rank, joined,
                   wpc, epoch, idx, grad, seen, stepped, partVars, vitVars>>

\* p.start() for the next rank (lines 290-293)
Spawn ==
    /\ mpc = "spawn"
    /\ rank < num_processes
    /\ wpc' = [wpc EXCEPT ![rank] = "loop"]
    /\ rank' = rank + 1
    /\ mpc' = IF rank + 1 = num_processes THEN "join" ELSE "spawn"
    /\ UNCHANGED <<fileInit, modelFile, corpus, joined, shared,
                   epoch, idx, grad, seen, stepped, partVars, vitVars>>

JoinMutNoWait ==
    /\ mpc = "join"
    /\ joined < num_processes
    /\ joined' = joined + 1
    /\ mpc' = IF joined + 1 = num_processes THEN "save" ELSE "join"
    /\ UNCHANGED <<fileInit, modelFile, corpus, rank, shared,
                   wpc, epoch, idx, grad, seen, stepped, partVars, vitVars>>

\* p.join() for the next process returns once that process has ended,
\* however it ended (lines 294-295)
Join ==
    /\ mpc = "join"
    /\ joined < num_processes
    /\ wpc[joined] \in {"done", "failed"}
    /\ joined' = joined + 1
    /\ mpc' = IF joined + 1 = num_processes THEN "save" ELSE "join"
    /\ UNCHANGED <<fileInit, modelFile, corpus, rank, shared,
                   wpc, epoch, idx, grad, seen, stepped, partVars, vitVars>>

\* torch.save(model, ...) (line 298)
Save ==
    /\ mpc = "save"
    /\ modelFile' = [state |-> "trained", params |-> shared]
    /\ mpc' = "reload"
    /\ UNCHANGED <<fileInit, corpus, rank, joined, shared,
                   wpc, epoch, idx, grad, seen, stepped, partVars, vitVars>>

\* model = model_load() of the file just written (line 301)
Reload ==
    /\ mpc = "reload"
    /\ mpc' = "infer"
    /\ UNCHANGED <<fileInit, modelFile, corpus, rank, joined, shared,
                   wpc, epoch, idx, grad, seen, stepped, partVars, vitVars>>

\* the predictions on the training and the test data (lines 308-347)
Infer ==
    /\ mpc = "infer"
    /\ mpc' = "exit"
    /\ UNCHANGED <<fileInit, modelFile, corpus, rank, joined, shared,
                   wpc, epoch, idx, grad, seen, stepped, partVars, vitVars>>

\* ---- train(model, shard, ...) in the process of rank r
AtEntry(r) ==
    /\ wpc[r] = "loop"
    /\ epoch[r] < MaxEpoch
    /\ idx[r] <= Len(ShardOf(r))

Entry(r) == corpus[ShardOf(r)[idx[r]]]

KnownTags(e) == \A i \in 1 .. Len(e.tags) : e.tags[i] \in DOMAIN tag_to_ix

Targets(e) == [i \in 1 .. Len(e.tags) |-> tag_to_ix[e.tags[i]]]

\* both loops are through: train returns
WorkerReturn(r) ==
    /\ wpc[r] = "loop"
    /\ epoch[r] = MaxEpoch \/ Len(ShardOf(r)) = 0
    /\ wpc' = [wpc EXCEPT ![r] = "done"]
    /\ UNCHANGED <<mpc, fileInit, modelFile, corpus, rank, joined, shared,
                   epoch, idx, grad, seen, stepped, partVars, vitVars>>

\* tag_to_ix[t] raises KeyError (line 220): the process ends
WorkerKeyError(r) ==
    /\ AtEntry(r)
    /\ ~KnownTags(Entry(r))
    /\ wpc' = [wpc EXCEPT ![r] = "failed"]
    /\ UNCHANGED <<mpc, fileInit, modelFile, corpus, rank, joined, shared,
                   epoch, idx, grad, seen, stepped, partVars, vitVars>>

\* _score_sentence raises IndexError (line 125, called from line 223)
WorkerIndexError(r) ==
    /\ AtEntry(r)
    /\ KnownTags(Entry(r))
    /\ score_sentence(shared, ZeroFeats(Entry(r).len), Targets(Entry(r))).err
    /\ wpc' = [wpc EXCEPT ![r] = "failed"]
    /\ UNCHANGED <<mpc, fileInit, modelFile, corpus, rank, joined, shared,
                   epoch, idx, grad, seen, stepped, partVars, vitVars>>

\* zero_grad, the forward pass and loss.backward() (lines 215-227)
WorkerBackward(r) ==
    /\ AtEntry(r)
    /\ KnownTags(Entry(r))
    /\ ~score_sentence(shared, ZeroFeats(Entry(r).len), Targets(Entry(r))).err
    /\ grad' = [grad EXCEPT ![r] =
                    Backward(Targets(Entry(r)), Entry(r).len,
                             PredPath(Entry(r).len))]
    /\ wpc' = [wpc EXCEPT ![r] = "step"]
    /\ UNCHANGED <<mpc, fileInit, modelFile, corpus, rank, joined, shared,
                   epoch, idx, seen, stepped, partVars, vitVars>>

\* optimizer.step() (line 228) reads the shared parameters ...
WorkerStepRead(r) ==
    /\ wpc[r] = "step"
    /\ seen' = [seen EXCEPT ![r] = shared]
    /\ wpc' = [wpc EXCEPT ![r] = "write"]
    /\ UNCHANGED <<mpc, fileInit, modelFile, corpus, rank, joined, shared,
                   epoch, idx, grad, stepped, partVars, vitVars>>

\* ... and writes them back, without a lock: what another process wrote
\* since the read is lost.  Then on to the next entry, or the next epoch
WorkerStepWrite(r) ==
    /\ wpc[r] = "write"
    /\ shared' = [i \in TagIx |-> [j \in TagIx |->
                      SgdStep(seen[r][i][j], grad[r][i][j])]]
    /\ stepped' = stepped \cup {ShardOf(r)[idx[r]]}
    /\ grad' = [grad EXCEPT ![r] = << >>]
    /\ seen' = [seen EXCEPT ![r] = << >>]
    /\ IF idx[r] < Len(ShardOf(r))
       THEN /\ idx' = [idx EXCEPT ![r] = idx[r] + 1]
            /\ UNCHANGED epoch
       ELSE /\ idx' = [idx EXCEPT ![r] = 1]
            /\ epoch' = [epoch EXCEPT ![r] = epoch[r] + 1]
    /\ wpc' = [wpc EXCEPT ![r] = "loop"]
    /\ UNCHANGED <<mpc, fileInit, modelFile, corpus, rank, joined,
                   partVars, vitVars>>

NextMain ==
    \/ LoadFound
    \/ LoadExcept
    \/ Spawn
    \/ Join
    \/ Save
    \/ Reload
    \/ Infer
    \/ \E r \in Ranks : WorkerReturn(r)
    \/ \E r \in Ranks : WorkerKeyError(r)
    \/ \E r \in Ranks : WorkerIndexError(r)
    \/ \E r \in Ranks : WorkerBackward(r)
    \/ \E r \in Ranks : WorkerStepRead(r)
    \/ \E r \in Ranks : WorkerStepWrite(r)

SpecMain == InitMain /\ [][NextMain]_vars

NextPartition == ShardStep

SpecPartition == InitPartition /\ [][NextPartition]_vars

\* ============================================================ claims
RECURSIVE Flatten(_)
Flatten(ss) == IF ss = << >> THEN << >> ELSE Head(ss) \o Flatten(Tail(ss))

RECURSIVE SumLen(_)
SumLen(ss) == IF ss = << >> THEN 0 ELSE Len(Head(ss)) + SumLen(Tail(ss))

PartitionDone == P > 0 /\ shard_i = P

\* C1: when all P shards are computed they are, joined in order, exactly the
\* corpus (contiguous, disjoint, in corpus order, every example once); each
\* size is floor(N/P) or floor(N/P)+1, the sizes sum to N, no shard is larger
\* than an earlier one, and N = 10, P = 4 gives sizes 3, 3, 2, 2.
C1_BalancedPartition ==
    PartitionDone =>
        LET fr == fragmented_training_data
        IN  /\ Len(fr) = P
            /\ Flatten(fr) = TrainingData(N)
            /\ \A i \in 1 .. P : Len(fr[i]) \in {N \div P, (N \div P) + 1}
            /\ SumLen(fr) = N
            /\ \A i \in 1 .. P : \A j \in i .. P : Len(fr[i]) >= Len(fr[j])
            /\ (N = 10 /\ P = 4) =>
                   [i \in 1 .. P |-> Len(fr[i])] = <<3, 3, 2, 2>>

C1_Witness ==
    /\ PartitionDone /\ N = 10 /\ P = 4
    /\ fragmented_training_data = <<<<1, 2, 3>>, <<4, 5, 6>>, <<7, 8>>, <<9, 10>>>>

Abs(x) == IF x < 0 THEN -x ELSE x

SentinelHeld(M) ==
    /\ \A j \in TagIx : M[START_IX][j] = NEG
    /\ \A i \in TagIx : M[i][STOP_IX] = NEG

MaxOf(S) == CHOOSE x \in S : \A y \in S : y <= x

\* the largest magnitude among the transitions outside the row of START and
\* the column of STOP and among the emissions
MaxFree ==
    MaxOf({0}
          \cup {Abs(transitions[i][j]) :
                    i \in TagIx \ {START_IX}, j \in TagIx \ {STOP_IX}}
          \cup {Abs(feats[t][k]) : t \in 1 .. Len(feats), k \in TagIx})

\* the sentinel value dominates: a path of this length adds at most
\* 2 * Len(feats) + 1 other terms, and twice their largest possible sum
\* stays below the magnitude of the sentinel
Dominant ==
    /\ SentinelHeld(transitions)
    /\ 2 * (2 * Len(feats) + 1) * MaxFree < -NEG

Returned == vpc = "done"

\* C2: when _viterbi_decode returns, its score is _score_sentence of the
\* same emissions and the returned path.
C2_ScoreRoundTrip ==
    Returned =>
        score_sentence(transitions, feats, best_path) =
            [err |-> FALSE, score |-> path_score]

C2_Witness ==
    /\ Returned /\ Len(feats) = 2 /\ ~SentinelHeld(transitions)
    /\ path_score > 2
    /\ best_path[1] # best_path[2]

\* C3: when _viterbi_decode returns, no tag sequence of the same length over
\* the tag indices scores higher than the returned score.
C3_ViterbiOptimal ==
    Returned =>
        \A tags \in [1 .. Len(feats) -> TagIx] :
            score_sentence(transitions, feats, tags).score <= path_score

C3_Witness ==
    /\ Returned /\ Len(feats) = 2
    /\ \E tags \in [1 .. 2 -> TagIx \ {START_IX, STOP_IX}] :
          /\ tags # best_path
          /\ score_sentence(transitions, feats, tags).score = path_score - 1

\* C5: with dominating sentinels and at least one position, the returned
\* path has one tag per position and none of them is START or STOP.
C5_NoSentinelInPath ==
    (Returned /\ Dominant /\ Len(feats) >= 1) =>
        /\ Len(best_path) = Len(feats)
        /\ \A i \in 1 .. Len(best_path) : best_path[i] \notin {START_IX, STOP_IX}

C5_Witness ==
    /\ Returned /\ Dominant /\ Len(feats) = 2
    /\ feats[1][STOP_IX] = 1 /\ feats[2][START_IX] = 1
    /\ best_path[1] \notin {START_IX, STOP_IX}
    /\ best_path[2] \notin {START_IX, STOP_IX}

\* C10: with dominating sentinels, for every length including 0, the trace
\* through the backpointers ends at START: the assertion never fails and
\* the path returned has exactly one entry per position.
C10_TraceEndsAtStart ==
    Dominant =>
        /\ vpc # "assert_fail"
        /\ (vpc = "trace" /\ Len(best_path) = Len(backpointers) + 1) =>
               best_path[Len(best_path)] = START_IX
        /\ Returned => Len(best_path) = Len(feats)

C10_Witness ==
    /\ Dominant /\ Returned /\ feats = << >> /\ best_path = << >>
    /\ Len(backpointers) = 0

Trained == mpc \in {"reload", "infer", "exit"} /\ fileInit # "pretrained"

\* C4: the row of START and the column of STOP of the shared transition
\* matrix hold the sentinel value in every state, whatever the workers did.
C4_SentinelsNeverChange ==
    shared # << >> =>
        /\ \A j \in TagIx : shared[START_IX][j] = LrInv * NEG
        /\ \A i \in TagIx : shared[i][STOP_IX] = LrInv * NEG

\* C6: once a worker has failed, the run saves no model and makes no
\* inference.
C6_WorkerFailureEndsRun ==
    (\E r \in Ranks : wpc[r] = "failed") =>
        /\ mpc \notin {"reload", "infer", "exit"}
        /\ modelFile.state # "trained"

\* C7: a load that fails for another reason than a missing file starts no
\* training and leaves the file as it was.
C7_OnlyMissingFileTrains ==
    fileInit = "corrupt" =>
        /\ mpc \notin {"spawn", "join", "save", "reload"}
        /\ \A r \in Ranks : wpc[r] = "unstarted"
        /\ modelFile.state = "corrupt"

\* C8: an entry whose tags are fewer or more than its characters gets no
\* score and no parameter update.
C8_LengthMismatchIsFatal ==
    /\ \A r \in Ranks :
          wpc[r] \in {"step", "write"} => Len(Entry(r).tags) = Entry(r).len
    /\ \A x \in stepped : Len(corpus[x].tags) = corpus[x].len

\* C9: on the training path the model is saved, reloaded and used only
\* when every worker process has ended, and the file holds the parameters
\* as they still are: no worker has written them since the save.
C9_SaveAfterAllWorkers ==
    /\ (mpc = "save" \/ Trained) =>
           \A r \in Ranks : wpc[r] \in {"done", "failed"}
    /\ Trained => modelFile = [state |-> "trained", params |-> shared]

C9_Witness ==
    /\ mpc = "exit" /\ Trained
    /\ \A r \in Ranks : wpc[r] = "done"
    /\ Cardinality(stepped) = 2
    /\ modelFile.params = shared
    /\ shared # NewModel

====
